---- MODULE Spec2Model ----
(***************************************************************************)
(* A model of app.py of ATS-Resume-Analyser-Pro: the PDF text extraction   *)
(* cascade, the prompt builder, the parsing step of analyze_with_ai, the  *)
(* session store as main() reads and writes it, the views that read a      *)
(* parsed score, and get_file_stats.                                       *)
(*                                                                         *)
(* Text.  A Python str is a sequence of characters; a character is a TLA+  *)
(* string.  Where only the structure of a text matters (the model's raw    *)
(* output), one element may stand for a run of characters none of which is *)
(* a brace, a bracket, a quote, a colon, a comma or white space.           *)
(*                                                                         *)
(* Python values are tagged records [t |-> tag, v |-> value] with tag one  *)
(* of "none", "str", "int", "bool", "list", "dict"; a dict is a function   *)
(* from keys (texts) to tagged values.                                     *)
(***************************************************************************)
EXTENDS Integers, Sequences, FiniteSets, TLC

\* ----------------------------------------------------------------- state

VARIABLES
    mode,            \* interpreter: analysis_type of the request
    rawText,         \* interpreter: response.choices[0].message.content
    embedded,        \* interpreter: the object whose text rawText embeds, or None
    interpDone,      \* interpreter: whether lines 391-405 have run
    payload,         \* interpreter: the value returned
    warned           \* interpreter: whether st.warning was called

interpVars == <<mode, rawText, embedded, interpDone, payload, warned>>

VARIABLES
    ex_pc,           \* extractor: where the call stands
    text,            \* extractor: the local `text`
    tmpCreated,      \* extractor: whether NamedTemporaryFile made the file
    tmpExists,       \* extractor: whether the file is on disk
    stagesRun,       \* extractor: the methods attempted, in order
    stagesRaised,    \* extractor: the methods that ended by raising
    seen,            \* extractor: len(text.strip()) at lines 178 and 188
    ret,             \* extractor: the value returned
    retPath,         \* extractor: "text", "warning" or "error" (line 203, 205, 208)
    raisedAt,        \* extractor: the temp-file step that raised to line 207, or "none"
    shownAsWarning   \* upload tab: whether the preview took st.warning (line 723)

extractVars == <<ex_pc, text, tmpCreated, tmpExists, stagesRun, stagesRaised,
                 seen, ret, retPath, raisedAt, shownAsWarning>>

VARIABLES
    pb_mode,         \* prompt builder: analysis_type
    pb_job_desc,     \* prompt builder: job_desc
    pb_resume_text,  \* prompt builder: resume_text
    pb_done,         \* prompt builder: whether the prompt was built
    pb_prompt        \* prompt builder: analysis_prompts[analysis_type]

promptVars == <<pb_mode, pb_job_desc, pb_resume_text, pb_done, pb_prompt>>

VARIABLES
    analysis_history, \* st.session_state.analysis_history
    current_analysis, \* st.session_state.current_analysis (PyNone for None)
    api_key,          \* st.session_state.api_key
    resume_text,      \* st.session_state.resume_text
    w_api_key,        \* the sidebar's key field, as the browser holds it
    uploaded_file,    \* the file uploader's file
    w_job_desc,       \* the job description text area
    now,              \* the wall clock, in half seconds
    rendered,         \* the parts of the page the last script run drew
    messages,         \* the notices emitted by the runs of the last user action
    requests,         \* the completion requests issued by the last user action
    completion,       \* how its completion call ended: "none", "raised", "returned"
    pressed           \* the button the last user action pressed, if any

sessionVars == <<analysis_history, current_analysis, api_key, resume_text,
                 w_api_key, uploaded_file, w_job_desc, now,
                 rendered, messages, requests, completion, pressed>>

VARIABLES
    cs_score,  \* consumers: the parsed score object of the analysis rendered
    cs_view,   \* consumers: the view that rendered it, or "none"
    cs_shown   \* consumers: what the view showed, item by item

consumerVars == <<cs_score, cs_view, cs_shown>>

VARIABLES
    fs_size,     \* get_file_stats: len(uploaded_file.getvalue())
    fs_primary,  \* get_file_stats: what pdfplumber does with the buffer
    fs_fallback, \* get_file_stats: what fitz does with the buffer
    fs_done,     \* get_file_stats has returned
    fs_stats     \* get_file_stats: the dict returned

statsVars == <<fs_size, fs_primary, fs_fallback, fs_done, fs_stats>>

\* ------------------------------------------------------------------ text

Min(a, b) == IF a <= b THEN a ELSE b

\* s[:n] of Python, n >= 0
Take(s, n) == SubSeq(s, 1, Min(n, Len(s)))

\* c * n of Python: the character c repeated n times
Rep(c, n) == [i \in 1..n |-> c]

\* the characters str.strip() removes (space and line feed are the ones used)
Whitespace == {" ", "\n"}

\* s.strip()
Strip(s) ==
    IF \A i \in 1..Len(s) : s[i] \in Whitespace THEN <<>>
    ELSE LET first == CHOOSE i \in 1..Len(s) :
                          /\ s[i] \notin Whitespace
                          /\ \A j \in 1..(i - 1) : s[j] \in Whitespace
             last  == CHOOSE i \in 1..Len(s) :
                          /\ s[i] \notin Whitespace
                          /\ \A j \in (i + 1)..Len(s) : s[j] \in Whitespace
         IN  SubSeq(s, first, last)

\* pat in s of Python (substring test)
Contains(s, pat) ==
    \E i \in 1..(Len(s) - Len(pat) + 1) : SubSeq(s, i, i + Len(pat) - 1) = pat

\* ---------------------------------------------------------- Python values

PyNone     == [t |-> "none", v |-> <<>>]
PyStr(s)   == [t |-> "str",  v |-> s]
PyInt(n)   == [t |-> "int",  v |-> n]
PyBool(b)  == [t |-> "bool", v |-> b]
PyList(l)  == [t |-> "list", v |-> l]
PyDict(d)  == [t |-> "dict", v |-> d]

EmptyDict == [k \in {} |-> PyNone]

\* bool(x) of Python, as "if result:" evaluates it
Truthy(x) ==
    CASE x.t = "none" -> FALSE
      [] x.t = "str"  -> Len(x.v) > 0
      [] x.t = "int"  -> x.v # 0
      [] x.t = "bool" -> x.v
      [] x.t = "list" -> Len(x.v) > 0
      [] x.t = "dict" -> DOMAIN x.v # {}

\* d.get(key, default) of Python
DictGet(d, key, default) == IF key \in DOMAIN d THEN d[key] ELSE default

\* d[key] = val of Python (a later duplicate key replaces the earlier one)
DictSet(d, key, val) ==
    [k \in DOMAIN d \cup {key} |-> IF k = key THEN val ELSE d[k]]

\* ------------------------------------------------------------ json.loads

\* the numerals that occur in the modelled texts, with their values
NumVal ==
    [n \in {"0", "55", "72", "80", "100", "150", "-5"} |->
        CASE n = "0" -> 0 [] n = "55" -> 55 [] n = "72" -> 72 [] n = "80" -> 80
          [] n = "100" -> 100 [] n = "150" -> 150 [] n = "-5" -> 0 - 5]

ParseFail == [ok |-> FALSE, val |-> PyNone, pos |-> 0]
ParseOk(val, pos) == [ok |-> TRUE, val |-> val, pos |-> pos]

\* the first index >= i of s that holds no white space (Len(s) + 1 at the end)
SkipWs(s, i) ==
    CHOOSE j \in i..(Len(s) + 1) :
        /\ j = Len(s) + 1 \/ s[j] \notin Whitespace
        /\ \A k \in i..(j - 1) : s[k] \in Whitespace

At(s, i) == IF i >= 1 /\ i <= Len(s) THEN s[i] ELSE "<end>"

\* a JSON string opening at s[i]: it runs to the next quote
ParseString(s, i) ==
    IF \E j \in (i + 1)..Len(s) : s[j] = "\""
    THEN LET close == CHOOSE j \in (i + 1)..Len(s) :
                          /\ s[j] = "\""
                          /\ \A k \in (i + 1)..(j - 1) : s[k] # "\""
         IN  ParseOk(PyStr(SubSeq(s, i + 1, close - 1)), close + 1)
    ELSE ParseFail

RECURSIVE ParseValue(_, _)
RECURSIVE ParseMembers(_, _, _)
RECURSIVE ParseElements(_, _, _)

\* after a member's value: "}" closes the object, "," leads to the next member
MembersNext(s, next, acc) ==
    CASE At(s, next) = "}" -> ParseOk(PyDict(acc), next + 1)
      [] At(s, next) = "," -> ParseMembers(s, SkipWs(s, next + 1), acc)
      [] OTHER -> ParseFail

\* the member's value was read as val (a later duplicate key replaces the
\* earlier one)
MembersAfterValue(s, key, val, acc) ==
    IF ~val.ok THEN ParseFail
    ELSE MembersNext(s, SkipWs(s, val.pos), DictSet(acc, key.val.v, val.val))

\* the member's key was read as key: a colon, then the value
MembersAfterKey(s, key, acc) ==
    IF ~key.ok THEN ParseFail
    ELSE IF At(s, SkipWs(s, key.pos)) # ":" THEN ParseFail
    ELSE MembersAfterValue(s, key,
                           ParseValue(s, SkipWs(s, SkipWs(s, key.pos) + 1)), acc)

\* the members of an object from the key at s[i] on, acc the pairs read so far
ParseMembers(s, i, acc) ==
    IF At(s, i) # "\"" THEN ParseFail
    ELSE MembersAfterKey(s, ParseString(s, i), acc)

\* after an element: "]" closes the array, "," leads to the next element
ElementsNext(s, next, acc) ==
    CASE At(s, next) = "]" -> ParseOk(PyList(acc), next + 1)
      [] At(s, next) = "," -> ParseElements(s, SkipWs(s, next + 1), acc)
      [] OTHER -> ParseFail

\* the element was read as val
ElementsAfterValue(s, val, acc) ==
    IF ~val.ok THEN ParseFail
    ELSE ElementsNext(s, SkipWs(s, val.pos), Append(acc, val.val))

\* the elements of an array from the value at s[i] on
ParseElements(s, i, acc) == ElementsAfterValue(s, ParseValue(s, i), acc)

\* one JSON value starting at s[i]
ParseValue(s, i) ==
    LET c == At(s, i)
    IN  CASE c = "{" ->
               LET j == SkipWs(s, i + 1)
               IN  IF At(s, j) = "}" THEN ParseOk(PyDict(EmptyDict), j + 1)
                   ELSE ParseMembers(s, j, EmptyDict)
          [] c = "[" ->
               LET j == SkipWs(s, i + 1)
               IN  IF At(s, j) = "]" THEN ParseOk(PyList(<<>>), j + 1)
                   ELSE ParseElements(s, j, <<>>)
          [] c = "\"" -> ParseString(s, i)
          [] c \in DOMAIN NumVal -> ParseOk(PyInt(NumVal[c]), i + 1)
          [] c = "true" -> ParseOk(PyBool(TRUE), i + 1)
          [] c = "false" -> ParseOk(PyBool(FALSE), i + 1)
          [] c = "null" -> ParseOk(PyNone, i + 1)
          [] OTHER -> ParseFail

\* the value read must be followed by white space only
WholeText(s, val) ==
    IF val.ok /\ SkipWs(s, val.pos) = Len(s) + 1 THEN val ELSE ParseFail

\* json.loads(s): one value, white space around it, nothing after it;
\* ok = FALSE stands for the JSONDecodeError it raises
JsonLoads(s) == WholeText(s, ParseValue(s, SkipWs(s, 1)))

\* ------------------------------------------- analyze_with_ai: the parsing

AnalysisTypes == {"detailed", "ats_score", "cover_letter"}

Indices(s, c) == {i \in 1..Len(s) : s[i] = c}

\* re.search(r'\{.*\}', result, re.DOTALL): the leftmost match starts at the
\* first "{", and the greedy ".*" (DOTALL: any character) runs to the last "}"
ReSearch(result) ==
    LET opens  == Indices(result, "{")
        closes == Indices(result, "}")
    IN  IF opens = {} THEN [found |-> FALSE, group |-> <<>>]
        ELSE LET first == CHOOSE i \in opens : \A j \in opens : i <= j
                 after == {j \in closes : j > first}
             IN  IF after = {} THEN [found |-> FALSE, group |-> <<>>]
                 ELSE LET last == CHOOSE i \in after : \A j \in after : j <= i
                      IN  [found |-> TRUE, group |-> SubSeq(result, first, last)]

\* line 398-399: json.loads gave `loaded`
Loaded(loaded) ==
    IF loaded.ok THEN [how |-> "parsed", parsed |-> loaded.val]
    ELSE [how |-> "raised", parsed |-> PyNone]

\* lines 397-399: `if json_match:`
ParseMatch(json_match) ==
    IF ~json_match.found THEN [how |-> "none", parsed |-> PyNone]
    ELSE Loaded(JsonLoads(json_match.group))

\* what the try block of lines 393-403 does with the text it is given:
\* "parsed" (return parsed), "raised" (the except branch) or "none" (no match,
\* falls out of the try)
TryParse(result) ==
    IF result.t # "str" THEN [how |-> "raised", parsed |-> PyNone]
    ELSE ParseMatch(ReSearch(result.v))

\* a variant whose except branch returns None in place of the raw text
AfterTryDropsText(result, try) ==
    CASE try.how = "parsed" -> [ret |-> try.parsed, warned |-> FALSE]
      [] try.how = "raised" -> [ret |-> PyNone, warned |-> TRUE]
      [] OTHER -> [ret |-> result, warned |-> FALSE]

\* lines 399, 400-403 and 405: what is returned after the try block, and
\* whether st.warning was called
AfterTry(result, try) ==
    CASE try.how = "parsed" -> [ret |-> try.parsed, warned |-> FALSE]
      [] try.how = "raised" -> [ret |-> result, warned |-> TRUE]
      [] OTHER -> [ret |-> result, warned |-> FALSE]

\* lines 391-405: the value analyze_with_ai returns for the content `result` of
\* the completion, and whether st.warning was called
InterpretResult(result, analysis_type) ==
    IF analysis_type = "ats_score"
    THEN AfterTry(result, TryParse(result))
    ELSE [ret |-> result, warned |-> FALSE]

\* ------------------------------------------------- the model's raw outputs

\* json.dumps-like text of a value; sp is the white space written after ":"
\* and ","
RECURSIVE Serialize(_, _)
RECURSIVE SerializeMembers(_, _, _)
RECURSIVE SerializeElements(_, _)

SerializeMembers(d, keys, sp) ==
    IF keys = {} THEN <<>>
    ELSE LET k == CHOOSE x \in keys : TRUE
             rest == keys \ {k}
         IN  <<"\"">> \o k \o <<"\"", ":">> \o sp \o Serialize(d[k], sp)
             \o (IF rest = {} THEN <<>> ELSE <<",">> \o sp)
             \o SerializeMembers(d, rest, sp)

SerializeElements(l, sp) ==
    IF l = <<>> THEN <<>>
    ELSE Serialize(Head(l), sp)
         \o (IF Len(l) = 1 THEN <<>> ELSE <<",">> \o sp)
         \o SerializeElements(Tail(l), sp)

Serialize(x, sp) ==
    CASE x.t = "dict" -> <<"{">> \o SerializeMembers(x.v, DOMAIN x.v, sp) \o <<"}">>
      [] x.t = "list" -> <<"[">> \o SerializeElements(x.v, sp) \o <<"]">>
      [] x.t = "str"  -> <<"\"">> \o x.v \o <<"\"">>
      [] x.t = "int"  -> <<CHOOSE n \in DOMAIN NumVal : NumVal[n] = x.v>>
      [] x.t = "bool" -> IF x.v THEN <<"true">> ELSE <<"false">>
      [] x.t = "none" -> <<"null">>

Dict1(k1, v1) == PyDict(DictSet(EmptyDict, <<k1>>, v1))
Dict2(k1, v1, k2, v2) == PyDict(DictSet(DictSet(EmptyDict, <<k1>>, v1), <<k2>>, v2))

\* well-formed StructuredScore objects, whole or partial
WellFormedScores ==
    { Dict2("overall_score", PyInt(72), "breakdown", Dict1("keyword_match", PyInt(80))),
      Dict1("overall_score", PyInt(55)),
      PyDict(EmptyDict),
      Dict2("breakdown", PyDict(EmptyDict),
            "keywords", Dict2("matched", PyList(<<PyStr(<<"python">>)>>),
                              "missing", PyList(<<>>))),
      Dict2("overall_score", PyInt(100),
            "improvements", PyList(<<PyStr(<<"use", " ", "}">>), PyStr(<<"{", "x">>)>>)),
      Dict2("overall_score", PyInt(0),
            "prediction", Dict2("pass_ats", PyBool(TRUE),
                                "interview_probability", PyStr(<<"High">>))) }

\* texts that are no JSON object: a value missing, an unquoted key, a trailing
\* comma, a colon missing, an object left open, and no brace at all
MalformedBodies ==
    { <<"{", "\"", "overall_score", "\"", ":", "}">>,
      <<"{", "overall_score", ":", "72", "}">>,
      <<"{", "\"", "overall_score", "\"", ":", "72", ",", "}">>,
      <<"{", "\"", "overall_score", "\"", " ", "72", "}">>,
      <<"{", "\"", "overall_score", "\"", ":", "72">>,
      <<"score", ":", " ", "72">>,
      <<>> }

\* the longest commentary put before and after the body
MaxCommentary == 2

CommentaryChars == {"x", "{", "}", "\""}

SeqsUpTo(S, n) == UNION {[1..k -> S] : k \in 0..n}

Commentary == SeqsUpTo(CommentaryChars, MaxCommentary)

Separators == {<<>>, <<"\n", " ">>}

InterpIdle ==
    /\ mode = "detailed"
    /\ rawText = <<>>
    /\ embedded = PyNone
    /\ interpDone = FALSE
    /\ payload = PyNone
    /\ warned = FALSE

InterpInputs ==
    /\ mode \in AnalysisTypes
    /\ \E pre \in Commentary, post \in Commentary :
          \/ \E S \in WellFormedScores, sp \in Separators :
                /\ rawText = pre \o Serialize(S, sp) \o post
                /\ embedded = S
          \/ \E body \in MalformedBodies :
                /\ rawText = pre \o body \o post
                /\ embedded = PyNone
    /\ interpDone = FALSE
    /\ payload = PyNone
    /\ warned = FALSE

\* the parsing step of analyze_with_ai applied to the raw text
Interpret ==
    /\ ~interpDone
    /\ \E out \in {InterpretResult(PyStr(rawText), mode)} :
          /\ payload' = out.ret
          /\ warned' = out.warned
    /\ interpDone' = TRUE
    /\ UNCHANGED <<mode, rawText, embedded>>
    /\ UNCHANGED <<extractVars, promptVars, sessionVars, consumerVars, statsVars>>

\* ------------------------------------------------- extract_text_from_pdf

\* line 202: the text is returned when its stripped length exceeds this
MinTextLen == 50
\* lines 178, 188: a later method runs when the stripped length is below this
MethodThreshold == 100
\* line 203: the returned text is cut to this length
MaxTextLen == 5000

WarnSign == <<"<U+26A0>", "<U+FE0F>">>

\* line 205 (the sign is U+26A0 U+FE0F)
WarningMsg ==
    WarnSign \o
    <<" ", "C", "o", "u", "l", "d", " ", "n", "o",
      "t", " ", "e", "x", "t", "r", "a", "c", "t", " ", "t", "e", "x", "t",
      ".", " ", "P", "l", "e", "a", "s", "e", " ", "e", "n", "s", "u", "r",
      "e", " ", "P", "D", "F", " ", "h", "a", "s", " ", "s", "e", "l", "e",
      "c", "t", "a", "b", "l", "e", " ", "t", "e", "x", "t", " ", "(", "n",
      "o", "t", " ", "s", "c", "a", "n", "n", "e", "d", " ", "i", "m", "a",
      "g", "e", ")", ".">>

ErrorWord == <<"E", "r", "r", "o", "r">>

\* line 208: f"Error extracting PDF: {str(e)}", e the exception caught
ErrorMsg(e) ==
    ErrorWord \o
    <<" ", "e", "x", "t", "r", "a", "c", "t", "i",
      "n", "g", " ", "P", "D", "F", ":", " ">> \o e

\* str(e) of the OSError a failing temp-file step raises
OsErrorText == <<"E", "N", "O", "S", "P", "C">>

Digits == <<"0", "1", "2", "3", "4", "5", "6", "7", "8", "9">>

\* str(n) of Python, n >= 0
RECURSIVE StrOfNat(_)
StrOfNat(n) ==
    IF n < 10 THEN <<Digits[n + 1]>>
    ELSE StrOfNat(n \div 10) \o <<Digits[(n % 10) + 1]>>

\* lines 159-162 and 192-195: each non-empty page text, followed by "\n\n"
RECURSIVE PagesWithBreaks(_)
PagesWithBreaks(pages) ==
    IF pages = <<>> THEN <<>>
    ELSE (IF Head(pages) # <<>> THEN Head(pages) \o <<"\n", "\n">> ELSE <<>>)
         \o PagesWithBreaks(Tail(pages))

\* lines 181-182: each page text, nothing between
RECURSIVE PagesJoined(_)
PagesJoined(pages) ==
    IF pages = <<>> THEN <<>> ELSE Head(pages) \o PagesJoined(Tail(pages))

\* lines 172-173: the annotation appended when tables were found
TablesNote(tables) ==
    <<"\n", "\n", "[", "D", "e", "t", "e", "c", "t", "e", "d", " ">>
    \o StrOfNat(tables) \o
    <<" ", "t", "a", "b", "l", "e", "s", " ", "i", "n", " ", "r", "e", "s",
      "u", "m", "e", "]", "\n">>

\* lines 157-175, pdfplumber: `pages` are the page texts read before the method
\* ended, `tables` the non-empty tables found, `raised` whether it ended by
\* raising (the texts read so far stay in text; the annotation is not reached)
Method1Text(txt, pages, tables, raised) ==
    txt \o PagesWithBreaks(pages)
        \o (IF ~raised /\ tables > 0 THEN TablesNote(tables) ELSE <<>>)

\* lines 180-183, PyMuPDF
Method2Text(txt, pages) == txt \o PagesJoined(pages)

\* lines 190-195, PyPDF2
Method3Text(txt, pages) == txt \o PagesWithBreaks(pages)

\* lines 178, 188: len(text.strip()) < 100
NotEnoughText(txt) == Len(Strip(txt)) < MethodThreshold

\* a variant that returns the text from 50 stripped characters on
ReturnValueAtLeast(txt) ==
    IF Len(Strip(txt)) >= MinTextLen
    THEN [ret |-> PyStr(Take(txt, MaxTextLen)), path |-> "text"]
    ELSE [ret |-> PyStr(WarningMsg), path |-> "warning"]

\* lines 202-205
ReturnValue(txt) ==
    IF Len(Strip(txt)) > MinTextLen
    THEN [ret |-> PyStr(Take(txt, MaxTextLen)), path |-> "text"]
    ELSE [ret |-> PyStr(WarningMsg), path |-> "warning"]

\* lines 207-208
ErrorReturn(e) == [ret |-> PyStr(ErrorMsg(e)), path |-> "error"]

\* line 722: "⚠️" in resume_text or "Error" in resume_text
PreviewIsWarning(resume) ==
    Contains(resume, WarnSign) \/ Contains(resume, ErrorWord)

\* the most pages a method reads, and the most tables method 1 finds
MaxPages == 1
MaxTables == 1

\* page texts: none; exactly MinTextLen characters; two characters with a run
\* of blanks between; one longer than MaxTextLen; one with the word "Error"
PageTexts ==
    { <<>>,
      Rep("a", MinTextLen),
      <<"a">> \o Rep(" ", MinTextLen + 10) \o <<"b">>,
      Rep("a", MaxTextLen + 1),
      ErrorWord \o <<" ">> \o Rep("a", MinTextLen + 10) }

PageSeqs == SeqsUpTo(PageTexts, MaxPages)

ExtractIdle ==
    /\ ex_pc = "start"
    /\ text = <<>>
    /\ tmpCreated = FALSE
    /\ tmpExists = FALSE
    /\ stagesRun = <<>>
    /\ stagesRaised = {}
    /\ seen = <<>>
    /\ ret = PyNone
    /\ retPath = "none"
    /\ raisedAt = "none"
    /\ shownAsWarning = FALSE

\* the except branch of lines 207-208, taken from the temp-file step `step`
RaiseToOuter(step) ==
    /\ raisedAt' = step
    /\ ret' = ErrorReturn(OsErrorText).ret
    /\ retPath' = ErrorReturn(OsErrorText).path
    /\ ex_pc' = "done"

\* lines 150-154: create the temp file, write the upload's bytes to it
StageTempFile ==
    /\ ex_pc = "start"
    /\ \/ /\ tmpCreated' = FALSE          \* NamedTemporaryFile raises
          /\ tmpExists' = FALSE
          /\ RaiseToOuter("create")
          /\ UNCHANGED text
       \/ /\ tmpCreated' = TRUE           \* getvalue() or write() raises
          /\ tmpExists' = TRUE
          /\ RaiseToOuter("write")
          /\ UNCHANGED text
       \/ /\ tmpCreated' = TRUE
          /\ tmpExists' = TRUE
          /\ text' = <<>>
          /\ ex_pc' = "method1"
          /\ UNCHANGED <<ret, retPath, raisedAt>>
    /\ UNCHANGED <<stagesRun, stagesRaised, seen, shownAsWarning>>
    /\ UNCHANGED <<interpVars, promptVars, sessionVars, consumerVars, statsVars>>

\* lines 157-175
Method1 ==
    /\ ex_pc = "method1"
    /\ \E pages \in PageSeqs, tables \in 0..MaxTables, raised \in BOOLEAN :
          /\ text' = Method1Text(text, pages, tables, raised)
          /\ stagesRaised' = IF raised THEN stagesRaised \cup {1} ELSE stagesRaised
    /\ stagesRun' = Append(stagesRun, 1)
    /\ ex_pc' = "method2"
    /\ UNCHANGED <<tmpCreated, tmpExists, seen, ret, retPath, raisedAt, shownAsWarning>>
    /\ UNCHANGED <<interpVars, promptVars, sessionVars, consumerVars, statsVars>>

\* a variant of method 2 whose exception is not caught at line 184
Method2Propagates ==
    /\ ex_pc = "method2"
    /\ seen' = Append(seen, Len(Strip(text)))
    /\ IF NotEnoughText(text)
       THEN /\ \E pages \in PageSeqs, raised \in BOOLEAN :
                  /\ text' = Method2Text(text, pages)
                  /\ stagesRaised' =
                        IF raised THEN stagesRaised \cup {2} ELSE stagesRaised
                  /\ IF raised
                     THEN /\ ret' = ErrorReturn(OsErrorText).ret
                          /\ retPath' = "error"
                          /\ ex_pc' = "done"
                     ELSE /\ ex_pc' = "method3"
                          /\ UNCHANGED <<ret, retPath>>
            /\ stagesRun' = Append(stagesRun, 2)
       ELSE /\ ex_pc' = "method3"
            /\ UNCHANGED <<text, stagesRaised, stagesRun, ret, retPath>>
    /\ UNCHANGED <<tmpCreated, tmpExists, raisedAt, shownAsWarning>>
    /\ UNCHANGED <<interpVars, promptVars, sessionVars, consumerVars, statsVars>>

\* lines 178-185
Method2 ==
    /\ ex_pc = "method2"
    /\ seen' = Append(seen, Len(Strip(text)))
    /\ IF NotEnoughText(text)
       THEN /\ \E pages \in PageSeqs, raised \in BOOLEAN :
                  /\ text' = Method2Text(text, pages)
                  /\ stagesRaised' =
                        IF raised THEN stagesRaised \cup {2} ELSE stagesRaised
            /\ stagesRun' = Append(stagesRun, 2)
       ELSE UNCHANGED <<text, stagesRaised, stagesRun>>
    /\ ex_pc' = "method3"
    /\ UNCHANGED <<tmpCreated, tmpExists, ret, retPath, raisedAt, shownAsWarning>>
    /\ UNCHANGED <<interpVars, promptVars, sessionVars, consumerVars, statsVars>>

\* a variant of method 3 without the test of line 188
Method3Untested ==
    /\ ex_pc = "method3"
    /\ seen' = Append(seen, Len(Strip(text)))
    /\ \E pages \in PageSeqs, raised \in BOOLEAN :
          /\ text' = Method3Text(text, pages)
          /\ stagesRaised' = IF raised THEN stagesRaised \cup {3} ELSE stagesRaised
    /\ stagesRun' = Append(stagesRun, 3)
    /\ ex_pc' = "cleanup"
    /\ UNCHANGED <<tmpCreated, tmpExists, ret, retPath, raisedAt, shownAsWarning>>
    /\ UNCHANGED <<interpVars, promptVars, sessionVars, consumerVars, statsVars>>

\* lines 188-197
Method3 ==
    /\ ex_pc = "method3"
    /\ seen' = Append(seen, Len(Strip(text)))
    /\ IF NotEnoughText(text)
       THEN /\ \E pages \in PageSeqs, raised \in BOOLEAN :
                  /\ text' = Method3Text(text, pages)
                  /\ stagesRaised' =
                        IF raised THEN stagesRaised \cup {3} ELSE stagesRaised
            /\ stagesRun' = Append(stagesRun, 3)
       ELSE UNCHANGED <<text, stagesRaised, stagesRun>>
    /\ ex_pc' = "cleanup"
    /\ UNCHANGED <<tmpCreated, tmpExists, ret, retPath, raisedAt, shownAsWarning>>
    /\ UNCHANGED <<interpVars, promptVars, sessionVars, consumerVars, statsVars>>

\* lines 200-208: os.unlink, then the return
CleanUpAndReturn ==
    /\ ex_pc = "cleanup"
    /\ \/ /\ RaiseToOuter("unlink")       \* os.unlink raises
          /\ UNCHANGED tmpExists
       \/ /\ tmpExists' = FALSE
          /\ UNCHANGED raisedAt
          /\ ret' = ReturnValue(text).ret
          /\ retPath' = ReturnValue(text).path
          /\ ex_pc' = "done"
    /\ UNCHANGED <<text, tmpCreated, stagesRun, stagesRaised, seen, shownAsWarning>>
    /\ UNCHANGED <<interpVars, promptVars, sessionVars, consumerVars, statsVars>>

\* lines 717-725: the upload tab shows the result
UploadPreview ==
    /\ ex_pc = "done"
    /\ shownAsWarning' = PreviewIsWarning(ret.v)
    /\ ex_pc' = "shown"
    /\ UNCHANGED <<text, tmpCreated, tmpExists, stagesRun, stagesRaised, seen,
                   ret, retPath, raisedAt>>
    /\ UNCHANGED <<interpVars, promptVars, sessionVars, consumerVars, statsVars>>

\* ------------------------------------- analyze_with_ai: the prompt built

\* lines 244, 247: the detailed prompt's cut of both texts
DetailedLimit == 2000
\* lines 306, 309: the ATS prompt's cut of both texts
AtsLimit == 1000
\* line 356: the cover letter prompt's cut of the resume text
CoverResumeLimit == 1500

\* a variant that cuts both texts to 2000 characters in every type
PromptUserOneLimit(analysis_type, job_desc, resume) ==
    <<analysis_type, "user.1">>
    \o Take(job_desc, DetailedLimit)
    \o <<"user.2">>
    \o Take(resume, DetailedLimit)
    \o <<"user.3">>

\* lines 241-296, 303-344, 350-371: the "user" f-string of each type; the fixed
\* text before, between and after the two interpolations is one element each
PromptUser(analysis_type, job_desc, resume) ==
    CASE analysis_type = "detailed" ->
           <<"detailed", "user.1">> \o Take(job_desc, DetailedLimit)
           \o <<"user.2">> \o Take(resume, DetailedLimit) \o <<"user.3">>
      [] analysis_type = "ats_score" ->
           <<"ats_score", "user.1">> \o Take(job_desc, AtsLimit)
           \o <<"user.2">> \o Take(resume, AtsLimit) \o <<"user.3">>
      [] analysis_type = "cover_letter" ->
           <<"cover_letter", "user.1">> \o job_desc
           \o <<"user.2">> \o Take(resume, CoverResumeLimit) \o <<"user.3">>

\* lines 236-373 and 376: analysis_prompts[analysis_type]
AnalysisPrompt(analysis_type, job_desc, resume) ==
    [system |-> <<analysis_type, "system">>,
     user   |-> PromptUser(analysis_type, job_desc, resume)]

\* a job description and a resume text of n characters; the characters differ
\* from place to place, so that a wrong cut shows
JobDescOfLen(n) == [i \in 1..n |-> Digits[(i % 10) + 1]]
ResumeOfLen(n) == [i \in 1..n |-> Digits[((i * i) % 7) + 1]]

\* lengths around each limit
InputLengths ==
    {0, 1} \cup {l + d : l \in {AtsLimit, CoverResumeLimit, DetailedLimit}, d \in {0 - 1, 0, 1}}
           \cup {DetailedLimit + AtsLimit}

PromptIdle ==
    /\ pb_mode = "detailed"
    /\ pb_job_desc = <<>>
    /\ pb_resume_text = <<>>
    /\ pb_done = FALSE
    /\ pb_prompt = [system |-> <<>>, user |-> <<>>]

PromptInputs ==
    /\ pb_mode \in AnalysisTypes
    /\ pb_job_desc \in {JobDescOfLen(n) : n \in InputLengths}
    /\ pb_resume_text \in {ResumeOfLen(n) : n \in InputLengths}
    /\ pb_done = FALSE
    /\ pb_prompt = [system |-> <<>>, user |-> <<>>]

\* lines 236-376: the prompt of the request
BuildPrompt ==
    /\ ~pb_done
    /\ pb_prompt' = AnalysisPrompt(pb_mode, pb_job_desc, pb_resume_text)
    /\ pb_done' = TRUE
    /\ UNCHANGED <<pb_mode, pb_job_desc, pb_resume_text>>
    /\ UNCHANGED <<interpVars, extractVars, sessionVars, consumerVars, statsVars>>

\* ------------------------------------------------------- main(): a session

\* lines 119-126: the session state before anything was stored
SessionFresh ==
    [analysis_history |-> <<>>,
     current_analysis |-> PyNone,
     api_key          |-> <<>>,
     resume_text      |-> <<>>]

\* lines 139 and 575-580: the model the select box starts on, and its key
SelectedModelName == <<"Llama 3.1 8B (Fast & Free)">>
ModelKey == <<"llama-3.1-8b-instant">>

\* line 874: the length of the job description preview, and what follows it
PreviewLen == 100
Ellipsis == <<".", ".", ".">>

\* the notices of lines 803, 807, 811, 134, 855, 401, 408 and 885
MsgNeedApiKey == "Please enter your API key in the sidebar first!"
MsgNeedResume == "Please upload your resume in the Upload tab!"
MsgNeedJobDesc == "Please paste a job description in the Upload tab!"
MsgClientError == "Error creating Groq client"
MsgNoClient == "Failed to create Groq client. Check API key."
MsgParseFailed == "Could not parse JSON"
MsgAiError == "AI Analysis Error"
MsgComplete == "Analysis complete!"

\* an uploaded PDF, by what each library reads from it; NoFile is the empty
\* uploader
NoFile == [present |-> FALSE, name |-> <<>>, pages1 |-> <<>>, pages2 |-> <<>>, pages3 |-> <<>>]
PdfFile(name, pages1, pages2, pages3) ==
    [present |-> TRUE, name |-> name, pages1 |-> pages1, pages2 |-> pages2, pages3 |-> pages3]

\* lines 146-208 on a file whose temp-file steps and libraries do not raise
ExtractTextFromPdf(file) ==
    LET t1 == Method1Text(<<>>, file.pages1, 0, FALSE)
        t2 == IF NotEnoughText(t1) THEN Method2Text(t1, file.pages2) ELSE t1
        t3 == IF NotEnoughText(t2) THEN Method3Text(t2, file.pages3) ELSE t2
    IN  ReturnValue(t3).ret.v

\* the files of a session: none, and one resume whose text pdfplumber reads
ResumeText == Rep("r", MinTextLen + 10)
SessionFiles == {NoFile, PdfFile(<<"cv.pdf">>, <<ResumeText>>, <<>>, <<>>)}

\* the files a resume is replaced by: another resume with a different text,
\* and a scan in which no reader finds text
OtherResumeText == Rep("q", MinTextLen + 20)
ReplacementFiles ==
    {PdfFile(<<"other.pdf">>, <<OtherResumeText>>, <<>>, <<>>),
     PdfFile(<<"scan.pdf">>, <<>>, <<>>, <<>>)}

\* extract_text_from_pdf on each file (the same bytes give the same text in
\* every run)
ExtractionOf ==
    [file \in SessionFiles \cup ReplacementFiles |-> ExtractTextFromPdf(file)]

\* the reading of datetime.now() formatted by "%Y-%m-%d %H:%M:%S": the half
\* second is dropped
Timestamp(clock) == clock \div 2

\* lines 869-879: the record of one analysis
AnalysisData(analysis_type, file, jd, result, clock) ==
    LET analysis_data ==
            [type             |-> analysis_type,
             model            |-> SelectedModelName,
             timestamp        |-> Timestamp(clock),
             filename         |-> file.name,
             job_desc_preview |-> Take(jd, PreviewLen) \o Ellipsis,
             result           |-> result]
    IN  IF analysis_type = "ats_score" /\ result.t = "dict"
        THEN [k \in DOMAIN analysis_data \cup {"score"} |->
                 IF k = "score"
                 THEN DictGet(result.v, <<"overall_score">>, PyInt(0))
                 ELSE analysis_data[k]]
        ELSE analysis_data

\* a variant that puts the new entry first
StoreAnalysisAtFront(S, analysis_data) ==
    [S EXCEPT !.current_analysis = analysis_data,
              !.analysis_history = <<analysis_data>> \o @]

\* lines 881-882
StoreAnalysis(S, analysis_data) ==
    [S EXCEPT !.current_analysis = analysis_data,
              !.analysis_history = Append(@, analysis_data)]

\* lines 378-387: the request sent to the model
CompletionRequest(analysis_type, jd, resume) ==
    [model |-> ModelKey, messages |-> AnalysisPrompt(analysis_type, jd, resume)]

\* lines 389-405: the call returned, and `out` is what the parsing step made
\* of its content
Returns(request, out) ==
    [request |-> request, ret |-> out.ret,
     messages |-> IF out.warned THEN {MsgParseFailed} ELSE {},
     completion |-> "returned"]

\* lines 375-409: analyze_with_ai on a completion call that raised, or that
\* returned `content`
AnalyzeWithAi(analysis_type, jd, resume, call) ==
    IF call.raised
    THEN [request |-> CompletionRequest(analysis_type, jd, resume), ret |-> PyNone,
          messages |-> {MsgAiError}, completion |-> "raised"]
    ELSE Returns(CompletionRequest(analysis_type, jd, resume),
                 InterpretResult(call.content, analysis_type))

\* a button press: its kind and, for the history buttons, the idx of its key
Click(kind, idx) == [kind |-> kind, idx |-> idx]
NoClick == Click("none", 0)

\* what one script run leaves: the session state, the widgets, the parts
\* drawn, the notices, the requests, and how the run ended ("end", "stop" for
\* st.stop(), "return" for line 856, "rerun" for st.rerun())
RunResult(S, W, parts, out, halt) ==
    [S |-> S, W |-> W, rendered |-> parts, messages |-> out.messages,
     requests |-> out.requests, completion |-> out.completion, halt |-> halt]

Silent == [messages |-> {}, requests |-> <<>>, completion |-> "none"]

\* lines 543-545: a non-empty key field is saved
Sidebar(S, W) ==
    IF W.api_key # <<>> THEN [S EXCEPT !.api_key = W.api_key] ELSE S

\* a variant of lines 702-718 that extracts only while nothing is cached
UploadTabCachesOnce(S, W) ==
    IF W.uploaded_file.present /\ S.resume_text = <<>>
    THEN [S EXCEPT !.resume_text = ExtractionOf[W.uploaded_file]]
    ELSE S

\* lines 702-718: an uploaded file is extracted and the text cached
UploadTab(S, W) ==
    IF W.uploaded_file.present
    THEN [S EXCEPT !.resume_text = ExtractionOf[W.uploaded_file]]
    ELSE S

\* lines 802-812: the notice of the first precondition that fails, or "none"
MissingNotice(W) ==
    CASE W.api_key = <<>>          -> MsgNeedApiKey
      [] ~W.uploaded_file.present  -> MsgNeedResume
      [] W.job_desc = <<>>         -> MsgNeedJobDesc
      [] OTHER                     -> "none"

\* lines 859-862: the resume text of the request
ResumeForRequest(S, W) ==
    IF S.resume_text = <<>> THEN ExtractionOf[W.uploaded_file] ELSE S.resume_text

\* lines 869-888 without the test of line 867: whatever analyze_with_ai
\* returned is stored
HandleResultStoresAlways(S, W, analysis_type, call, clock) ==
    [S |-> StoreAnalysis(S, AnalysisData(analysis_type, W.uploaded_file,
                                         W.job_desc, call.ret, clock)),
     halt |-> "rerun",
     out |-> [messages |-> call.messages \cup {MsgComplete},
              requests |-> <<call.request>>,
              completion |-> call.completion]]

\* a variant of lines 865-888 that sends the request again when nothing
\* came back
HandleResultRetries(S, W, analysis_type, call, clock) ==
    IF Truthy(call.ret)
    THEN [S |-> StoreAnalysis(S, AnalysisData(analysis_type, W.uploaded_file,
                                              W.job_desc, call.ret, clock)),
          halt |-> "rerun",
          out |-> [messages |-> call.messages \cup {MsgComplete},
                   requests |-> <<call.request>>,
                   completion |-> call.completion]]
    ELSE [S |-> S, halt |-> "end",
          out |-> [messages |-> call.messages,
                   requests |-> <<call.request, call.request>>,
                   completion |-> call.completion]]

\* lines 867-888: `call` is what analyze_with_ai returned and left behind
HandleResult(S, W, analysis_type, call, clock) ==
    IF Truthy(call.ret)
    THEN [S |-> StoreAnalysis(S, AnalysisData(analysis_type, W.uploaded_file,
                                              W.job_desc, call.ret, clock)),
          halt |-> "rerun",
          out |-> [messages |-> call.messages \cup {MsgComplete},
                   requests |-> <<call.request>>,
                   completion |-> call.completion]]
    ELSE [S |-> S, halt |-> "end",
          out |-> [messages |-> call.messages,
                   requests |-> <<call.request>>,
                   completion |-> call.completion]]

\* lines 840-892: an analysis button was pressed
HandleAnalysis(S, W, analysis_type, env, clock) ==
    IF ~env.client_ok
    THEN [S |-> S, halt |-> "return",
          out |-> [messages |-> {MsgClientError, MsgNoClient},
                   requests |-> <<>>, completion |-> "none"]]
    ELSE HandleResult(S, W, analysis_type,
                      AnalyzeWithAi(analysis_type, W.job_desc,
                                    ResumeForRequest(S, W), env.call),
                      clock)

\* a variant of lines 1205-1208 that pops the last entry with this timestamp
PopLastWithTimestamp(history, ts) ==
    LET i == CHOOSE k \in 1..Len(history) :
                 /\ history[k].timestamp = ts
                 /\ \A j \in (k + 1)..Len(history) : history[j].timestamp # ts
    IN  SubSeq(history, 1, i - 1) \o SubSeq(history, i + 1, Len(history))

\* lines 1205-1208: the first entry with this timestamp is popped
PopFirstWithTimestamp(history, ts) ==
    LET i == CHOOSE k \in 1..Len(history) :
                 /\ history[k].timestamp = ts
                 /\ \A j \in 1..(k - 1) : history[j].timestamp # ts
    IN  SubSeq(history, 1, i - 1) \o SubSeq(history, i + 1, Len(history))

\* a variant of lines 1178-1201 that takes idx for a position in the history,
\* as if the expanders listed it oldest first
LaterTabsOldestFirst(S, W, click, out) ==
    LET history == S.analysis_history
        upto2 == {"sidebar", "upload", "analyze"}
                 \cup (IF S.current_analysis # PyNone THEN {"current"} ELSE {})
    IN  IF click.kind = "run_new" /\ S.current_analysis # PyNone
        THEN RunResult([S EXCEPT !.current_analysis = PyNone], W, upto2, out, "rerun")
        ELSE IF click.kind \in {"load", "delete"} /\ click.idx \in 0..(Len(history) - 1)
        THEN LET analysis == history[click.idx + 1]
                 parts == upto2 \cup {"dashboard", "visualize", "history"}
             IN  IF click.kind = "load"
                 THEN RunResult([S EXCEPT !.current_analysis = analysis],
                                W, parts, out, "rerun")
                 ELSE RunResult([S EXCEPT !.analysis_history =
                                     PopFirstWithTimestamp(history, analysis.timestamp)],
                                W, parts, out, "rerun")
        ELSE RunResult(S, W, upto2 \cup {"dashboard", "visualize", "history"}, out, "end")

\* lines 894-1211: the current analysis, the dashboard, the charts and the
\* history, with the buttons among them
LaterTabs(S, W, click, out) ==
    LET history == S.analysis_history
        upto2 == {"sidebar", "upload", "analyze"}
                 \cup (IF S.current_analysis # PyNone THEN {"current"} ELSE {})
    IN  IF click.kind = "run_new" /\ S.current_analysis # PyNone
        THEN RunResult([S EXCEPT !.current_analysis = PyNone], W, upto2, out, "rerun")
        ELSE IF click.kind \in {"load", "delete"} /\ click.idx \in 0..(Len(history) - 1)
        THEN LET analysis == history[Len(history) - click.idx]
                 parts == upto2 \cup {"dashboard", "visualize", "history"}
             IN  IF click.kind = "load"
                 THEN RunResult([S EXCEPT !.current_analysis = analysis],
                                W, parts, out, "rerun")
                 ELSE RunResult([S EXCEPT !.analysis_history =
                                     PopFirstWithTimestamp(history, analysis.timestamp)],
                                W, parts, out, "rerun")
        ELSE RunResult(S, W, upto2 \cup {"dashboard", "visualize", "history"}, out, "end")

\* lines 889-1211: what follows the handling `h` of an analysis button
AfterAnalysis(h, W) ==
    IF h.halt = "end"
    THEN LaterTabs(h.S, W, NoClick, h.out)
    ELSE RunResult(h.S, W, {"sidebar", "upload", "analyze"}, h.out, h.halt)

\* lines 690-1211: the tabs, S the session state the sidebar left
Tabs(S, W, click, env, clock) ==
    IF MissingNotice(W) # "none"
    THEN RunResult(S, W, {"sidebar", "upload"},
                   [Silent EXCEPT !.messages = {MissingNotice(W)}], "stop")
    ELSE IF click.kind \in AnalysisTypes
    THEN AfterAnalysis(HandleAnalysis(S, W, click.kind, env, clock), W)
    ELSE LaterTabs(S, W, click, Silent)

\* lines 671-1211: one run of the script on the session state S and the
\* widget values W, started by the press `click`
MainRun(S, W, click, env, clock) ==
    IF click.kind = "clear_all"
    THEN \* lines 605-607; the key field's default (line 540) is then read from
         \* the emptied state: the field shows it, or keeps what was typed
         RunResult(SessionFresh,
                   IF env.key_kept THEN W ELSE [W EXCEPT !.api_key = <<>>],
                   {"sidebar"}, Silent, "rerun")
    ELSE Tabs(UploadTab(Sidebar(S, W), W), W, click, env, clock)

\* the environment of a run that creates no client and calls no model
NoEnv ==
    [client_ok |-> TRUE, call |-> [raised |-> TRUE, content |-> PyNone],
     key_kept |-> FALSE]

\* lines 888, 1017, 1201, 1209, 607: st.rerun() runs the script again, with no
\* press; what the first run emitted stays on record
Rerun(first, again) ==
    [again EXCEPT !.messages = first.messages \cup again.messages,
                  !.requests = first.requests \o again.requests,
                  !.completion = first.completion]

\* a variant in which a current analysis that is no entry of the history is
\* dropped
WithoutOrphan(r) ==
    IF \E i \in 1..Len(r.S.analysis_history) :
          r.S.analysis_history[i] = r.S.current_analysis
    THEN r
    ELSE [r EXCEPT !.S.current_analysis = PyNone]

AfterRunDropsOrphan(first, clock) ==
    WithoutOrphan(IF first.halt = "rerun"
                  THEN Rerun(first, MainRun(first.S, first.W, NoClick, NoEnv, clock))
                  ELSE first)

AfterRun(first, clock) ==
    IF first.halt = "rerun"
    THEN Rerun(first, MainRun(first.S, first.W, NoClick, NoEnv, clock))
    ELSE first

\* a user action: the script runs on the press, and once more when the run
\* ended in st.rerun()
UserAction(S, W, click, env, clock) ==
    AfterRun(MainRun(S, W, click, env, clock), clock)

\* the session state and the widgets as the variables hold them
SessionState ==
    [analysis_history |-> analysis_history,
     current_analysis |-> current_analysis,
     api_key          |-> api_key,
     resume_text      |-> resume_text]

Widgets ==
    [api_key |-> w_api_key, uploaded_file |-> uploaded_file, job_desc |-> w_job_desc]

Becomes(r, click) ==
    /\ pressed' = click
    /\ analysis_history' = r.S.analysis_history
    /\ current_analysis' = r.S.current_analysis
    /\ api_key' = r.S.api_key
    /\ resume_text' = r.S.resume_text
    /\ w_api_key' = r.W.api_key
    /\ uploaded_file' = r.W.uploaded_file
    /\ w_job_desc' = r.W.job_desc
    /\ rendered' = r.rendered
    /\ messages' = r.messages
    /\ requests' = r.requests
    /\ completion' = r.completion

\* ------------------------------------------------ the averages shown

RECURSIVE SumOf(_)
\* sum(...) of Python over a list of integers
SumOf(ns) == IF ns = <<>> THEN 0 ELSE Head(ns) + SumOf(Tail(ns))

\* f"{total / count:.1f}": the quotient in tenths, rounded to the nearest
\* (a quotient of non-negative integers by fewer than four is never halfway
\* between two tenths)
OneDecimal(total, count) == (20 * total + count) \div (2 * count)

RECURSIVE SidebarScores(_)
\* line 588: [a.get('score', 0) for a in history if 'score' in a]
SidebarScores(history) ==
    IF history = <<>> THEN <<>>
    ELSE (IF "score" \in DOMAIN Head(history)
          THEN <<Head(history)["score"].v>> ELSE <<>>)
         \o SidebarScores(Tail(history))

\* lines 587-594: the "Avg Score" of the sidebar, in tenths of a percent
SidebarAvgScore(history) ==
    OneDecimal(SumOf(SidebarScores(history)),
               IF Len(history) > 1 THEN Len(history) ELSE 1)

RECURSIVE VisualizeScores(_)
\* lines 1120-1127: the overall scores of the entries the chart shows
VisualizeScores(history) ==
    IF history = <<>> THEN <<>>
    ELSE (IF Head(history).type = "ats_score" /\ Head(history).result.t = "dict"
          THEN <<DictGet(Head(history).result.v, <<"overall_score">>, PyInt(0)).v>>
          ELSE <<>>)
         \o VisualizeScores(Tail(history))

\* lines 1151 and 1158: the "Average Score" of the Visualize tab, in tenths
VisualizeAvgScore(history) ==
    OneDecimal(SumOf(VisualizeScores(history)), Len(VisualizeScores(history)))

\* ------------------------------------------------ the session's inputs

\* the most entries the history is let grow to, and the last clock reading
MaxHistory == 2
MaxTime == 2

SessionKeys == {<<>>, <<"gsk_1">>}

SessionJobDescs == {<<>>, JobDescOfLen(PreviewLen + 1)}

\* what the model answers: nothing, prose, a score object, one whose score is
\* no percentage, a partial one, an empty one
ScoreOutputs ==
    { Serialize(Dict1("overall_score", PyInt(72)), <<>>),
      Serialize(Dict1("overall_score", PyInt(150)), <<>>),
      Serialize(Dict1("breakdown", PyDict(EmptyDict)), <<>>),
      Serialize(PyDict(EmptyDict), <<>>) }

ModelOutputs(analysis_type) ==
    IF analysis_type = "ats_score"
    THEN {<<>>, <<"prose">>} \cup ScoreOutputs
    ELSE {<<>>, <<"prose">>}

Calls(analysis_type) ==
    {[raised |-> TRUE, content |-> PyNone]}
    \cup {[raised |-> FALSE, content |-> PyStr(o)] : o \in ModelOutputs(analysis_type)}

\* what an analysis meets: no client (line 854), or a client and a call
AnalyzeEnvs(analysis_type) ==
    {[NoEnv EXCEPT !.client_ok = FALSE]}
    \cup {[NoEnv EXCEPT !.call = call] : call \in Calls(analysis_type)}

\* the first run of the script, on a fresh session and empty widgets
FirstRun ==
    MainRun(SessionFresh,
            [api_key |-> <<>>, uploaded_file |-> NoFile, job_desc |-> <<>>],
            NoClick, NoEnv, 0)

SessionIdle ==
    /\ analysis_history = FirstRun.S.analysis_history
    /\ current_analysis = FirstRun.S.current_analysis
    /\ api_key = FirstRun.S.api_key
    /\ resume_text = FirstRun.S.resume_text
    /\ w_api_key = FirstRun.W.api_key
    /\ uploaded_file = FirstRun.W.uploaded_file
    /\ w_job_desc = FirstRun.W.job_desc
    /\ now = 0
    /\ rendered = FirstRun.rendered
    /\ messages = FirstRun.messages
    /\ requests = FirstRun.requests
    /\ completion = FirstRun.completion
    /\ pressed = NoClick

\* ------------------------------------------------ the session's actions

\* the user edits the key field (lines 536-541)
EnterApiKey ==
    /\ \E k \in SessionKeys \ {w_api_key} :
          Becomes(UserAction(SessionState, [Widgets EXCEPT !.api_key = k],
                             NoClick, NoEnv, now), NoClick)
    /\ UNCHANGED now
    /\ UNCHANGED <<interpVars, extractVars, promptVars, consumerVars, statsVars>>

\* the user uploads or removes a file (lines 696-700)
UploadFile ==
    /\ \E f \in SessionFiles \ {uploaded_file} :
          Becomes(UserAction(SessionState, [Widgets EXCEPT !.uploaded_file = f],
                             NoClick, NoEnv, now), NoClick)
    /\ UNCHANGED now
    /\ UNCHANGED <<interpVars, extractVars, promptVars, consumerVars, statsVars>>

\* the user puts another file in the uploader, or takes the file out
\* (lines 696-700)
ReplaceFile ==
    /\ \E f \in (SessionFiles \cup ReplacementFiles) \ {uploaded_file} :
          Becomes(UserAction(SessionState, [Widgets EXCEPT !.uploaded_file = f],
                             NoClick, NoEnv, now), NoClick)
    /\ UNCHANGED now
    /\ UNCHANGED <<interpVars, extractVars, promptVars, consumerVars, statsVars>>

\* the user edits the job description (lines 731-736)
EditJobDesc ==
    /\ \E j \in SessionJobDescs \ {w_job_desc} :
          Becomes(UserAction(SessionState, [Widgets EXCEPT !.job_desc = j],
                             NoClick, NoEnv, now), NoClick)
    /\ UNCHANGED now
    /\ UNCHANGED <<interpVars, extractVars, promptVars, consumerVars, statsVars>>

\* one of the three analysis buttons (lines 820-832 and 840-892)
ClickAnalyze ==
    /\ "analyze" \in rendered
    /\ Len(analysis_history) < MaxHistory
    /\ \E analysis_type \in AnalysisTypes :
          \E env \in AnalyzeEnvs(analysis_type) :
             Becomes(UserAction(SessionState, Widgets, Click(analysis_type, 0), env, now),
                     Click(analysis_type, 0))
    /\ UNCHANGED now
    /\ UNCHANGED <<interpVars, extractVars, promptVars, consumerVars, statsVars>>

\* "Run New Analysis" (lines 1015-1017)
ClickRunNew ==
    /\ "current" \in rendered
    /\ Becomes(UserAction(SessionState, Widgets, Click("run_new", 0), NoEnv, now),
               Click("run_new", 0))
    /\ UNCHANGED now
    /\ UNCHANGED <<interpVars, extractVars, promptVars, consumerVars, statsVars>>

\* "Load This Analysis" of one history entry (lines 1199-1201)
ClickLoad ==
    /\ "history" \in rendered
    /\ \E idx \in 0..(Len(analysis_history) - 1) :
          Becomes(UserAction(SessionState, Widgets, Click("load", idx), NoEnv, now),
                  Click("load", idx))
    /\ UNCHANGED now
    /\ UNCHANGED <<interpVars, extractVars, promptVars, consumerVars, statsVars>>

\* "Delete This Analysis" of one history entry (lines 1203-1209)
ClickDelete ==
    /\ "history" \in rendered
    /\ \E idx \in 0..(Len(analysis_history) - 1) :
          Becomes(UserAction(SessionState, Widgets, Click("delete", idx), NoEnv, now),
                  Click("delete", idx))
    /\ UNCHANGED now
    /\ UNCHANGED <<interpVars, extractVars, promptVars, consumerVars, statsVars>>

\* "Clear All" (lines 605-607)
ClickClearAll ==
    /\ "sidebar" \in rendered
    /\ \E kept \in BOOLEAN :
          Becomes(UserAction(SessionState, Widgets, Click("clear_all", 0),
                             [NoEnv EXCEPT !.key_kept = kept], now),
                  Click("clear_all", 0))
    /\ UNCHANGED now
    /\ UNCHANGED <<interpVars, extractVars, promptVars, consumerVars, statsVars>>

\* half a second passes
Tick ==
    /\ now < MaxTime
    /\ now' = now + 1
    /\ UNCHANGED <<analysis_history, current_analysis, api_key, resume_text,
                   w_api_key, uploaded_file, w_job_desc,
                   rendered, messages, requests, completion, pressed>>
    /\ UNCHANGED <<interpVars, extractVars, promptVars, consumerVars, statsVars>>

\* ------------------------------------------------ the score's consumers

\* the value of an expression whose evaluation raised
Raised == [t |-> "raised", v |-> <<>>]

\* x[key] of Python: KeyError on an absent key, TypeError on no dict
Subscript(x, key) ==
    IF x.t = "dict" /\ <<key>> \in DOMAIN x.v THEN x.v[<<key>>] ELSE Raised

\* a variant of x.get(key, default) that subscripts
GetOrKeyError(x, key, default) == Subscript(x, key)

\* x.get(key, default) of Python: AttributeError on no dict
Get(x, key, default) ==
    IF x.t = "dict" THEN DictGet(x.v, <<key>>, default) ELSE Raised

\* `for item in x`: TypeError on a value that is no collection
Iterate(x) == IF x.t \in {"list", "str", "dict"} THEN x ELSE Raised

\* x[:n] of Python: TypeError on a value that is no sequence
Sliced(x, n) ==
    IF x.t \in {"list", "str"} THEN [x EXCEPT !.v = Take(x.v, n)] ELSE Raised

\* lines 926 and 1045: "PASS" if prediction.get('pass_ats') else "FAIL"
PassLabel(flag) ==
    IF flag = Raised THEN Raised
    ELSE IF Truthy(flag) THEN PyStr(<<"PASS">>) ELSE PyStr(<<"FAIL">>)

\* lines 924, 1044
PredictionOf(score_data) == Get(score_data, "prediction", PyDict(EmptyDict))

\* lines 936-942: one progress bar for each sub-score; st.progress raises on
\* a value outside 0..1
ProgressBars(breakdown) ==
    IF breakdown = Raised THEN Raised
    ELSE IF ~Truthy(breakdown) THEN PyDict(EmptyDict)
    ELSE IF breakdown.t = "dict"
            /\ \A k \in DOMAIN breakdown.v :
                  breakdown.v[k].t = "int" /\ breakdown.v[k].v \in 0..100
    THEN breakdown
    ELSE Raised

\* lines 1074-1078 and 453: the radar chart of a non-empty breakdown
RadarChart(breakdown) ==
    IF breakdown = Raised THEN Raised
    ELSE IF ~Truthy(breakdown) THEN PyDict(EmptyDict)
    ELSE IF breakdown.t = "dict" THEN breakdown
    ELSE Raised

\* lines 951-954, 957-960: `if keywords.get(key): for kw in keywords[key]`
Listed(flag, keywords, key) ==
    IF flag = Raised THEN Raised
    ELSE IF Truthy(flag) THEN Iterate(Subscript(keywords, key))
    ELSE PyList(<<>>)

ListedKeywords(keywords, key) == Listed(Get(keywords, key, PyNone), keywords, key)

\* lines 1088-1091, 1095-1098 and 489: the bar chart of keywords[:10]
Charted(flag, keywords, key) ==
    IF flag = Raised THEN Raised
    ELSE IF Truthy(flag) THEN Sliced(Subscript(keywords, key), 10)
    ELSE PyList(<<>>)

ChartedKeywords(keywords, key) == Charted(Get(keywords, key, PyNone), keywords, key)

\* lines 1106-1107: one expander for each improvement, titled imp[:50]
RoadmapTitles(improvements) ==
    IF improvements.t # "list" THEN Iterate(improvements)
    ELSE IF \E i \in 1..Len(improvements.v) : Sliced(improvements.v[i], 50) = Raised
    THEN Raised
    ELSE PyList([i \in 1..Len(improvements.v) |-> Sliced(improvements.v[i], 50)])

\* lines 907-974: the Analyze view of a parsed score
AnalyzeScore(score_data) ==
    [gauge        |-> Get(score_data, "overall_score", PyInt(0)),
     status       |-> PassLabel(Get(PredictionOf(score_data), "pass_ats", PyNone)),
     probability  |-> Get(PredictionOf(score_data), "interview_probability", PyStr(<<>>)),
     shortlist    |-> Get(PredictionOf(score_data), "shortlist_time", PyStr(<<"N/A">>)),
     progress     |-> ProgressBars(Get(score_data, "breakdown", PyDict(EmptyDict))),
     matched      |-> ListedKeywords(Get(score_data, "keywords", PyDict(EmptyDict)), "matched"),
     missing      |-> ListedKeywords(Get(score_data, "keywords", PyDict(EmptyDict)), "missing"),
     improvements |-> Iterate(Get(score_data, "improvements", PyList(<<>>))),
     tips         |-> Iterate(Get(score_data, "ats_optimization_tips", PyList(<<>>)))]

\* lines 895-985: the Analyze view of the current analysis
AnalyzeView(analysis) ==
    IF analysis.type = "ats_score" /\ analysis.result.t = "dict"
    THEN AnalyzeScore(analysis.result)
    ELSE [text |-> analysis.result]

\* lines 1033-1109: the Dashboard of a parsed score
DashboardScore(score_data) ==
    [overall      |-> Get(score_data, "overall_score", PyInt(0)),
     status       |-> PassLabel(Get(PredictionOf(score_data), "pass_ats", PyNone)),
     probability  |-> Get(PredictionOf(score_data), "interview_probability", PyStr(<<"N/A">>)),
     shortlist    |-> Get(PredictionOf(score_data), "shortlist_time", PyStr(<<"N/A">>)),
     gauge        |-> Get(score_data, "overall_score", PyInt(0)),
     radar        |-> RadarChart(Get(score_data, "breakdown", PyDict(EmptyDict))),
     matched      |-> ChartedKeywords(Get(score_data, "keywords", PyDict(EmptyDict)), "matched"),
     missing      |-> ChartedKeywords(Get(score_data, "keywords", PyDict(EmptyDict)), "missing"),
     improvements |-> RoadmapTitles(Get(score_data, "improvements", PyList(<<>>)))]

\* lines 1027-1112: the Dashboard of the current analysis
DashboardView(analysis) ==
    IF analysis.type = "ats_score" /\ analysis.result.t = "dict"
    THEN DashboardScore(analysis.result)
    ELSE [info |-> PyStr(<<"Dashboard available only for ATS Score analysis">>)]

\* lines 1118-1167: the Visualize tab of a history of this one analysis
VisualizeView(analysis) ==
    IF VisualizeScores(<<analysis>>) # <<>>
    THEN [scores  |-> PyList(VisualizeScores(<<analysis>>)),
          average |-> PyInt(VisualizeAvgScore(<<analysis>>))]
    ELSE [info |-> PyStr(<<"No ATS Score analyses found in history.">>)]

\* lines 1178-1196: the History tab's expander of one analysis
HistoryView(analysis) ==
    IF analysis.type = "ats_score" /\ analysis.result.t = "dict"
    THEN [type    |-> PyStr(<<analysis.type>>),
          preview |-> PyStr(analysis.job_desc_preview),
          score   |-> Get(analysis.result, "overall_score", PyInt(0))]
    ELSE [type    |-> PyStr(<<analysis.type>>),
          preview |-> PyStr(analysis.job_desc_preview)]

\* the score object of lines 311-343 with every field present
FullBreakdown == Dict2("keyword_match", PyInt(80), "education_match", PyInt(55))
FullPrediction ==
    PyDict(DictSet(Dict2("pass_ats", PyBool(TRUE),
                         "interview_probability", PyStr(<<"High">>)).v,
                   <<"shortlist_time">>, PyStr(<<"Immediate">>)))
FullKeywords ==
    Dict2("matched", PyList(<<PyStr(<<"python">>)>>),
          "missing", PyList(<<PyStr(<<"sql">>)>>))
FullScore ==
    [f \in {<<"overall_score">>, <<"breakdown">>, <<"prediction">>, <<"keywords">>,
            <<"improvements">>, <<"ats_optimization_tips">>} |->
        CASE f = <<"overall_score">> -> PyInt(72)
          [] f = <<"breakdown">>     -> FullBreakdown
          [] f = <<"prediction">>    -> FullPrediction
          [] f = <<"keywords">>      -> FullKeywords
          [] f = <<"improvements">>  -> PyList(<<PyStr(<<"add", " ", "metrics">>)>>)
          [] OTHER                   -> PyList(<<PyStr(<<"use", " ", "keywords">>)>>)]

\* a dict cut down to some of its keys
Restricted(d, keys) == PyDict([k \in keys \cap DOMAIN d.v |-> d.v[k]])

\* the score object with only the fields `top`, and of its breakdown,
\* prediction and keywords only the fields `sub`
PartialScore(top, sub) ==
    PyDict([f \in top |->
               IF FullScore[f].t = "dict" THEN Restricted(FullScore[f], sub)
               ELSE FullScore[f]])

SubFields ==
    DOMAIN FullBreakdown.v \cup DOMAIN FullPrediction.v \cup DOMAIN FullKeywords.v

PartialScores ==
    {PartialScore(top, sub) : top \in SUBSET DOMAIN FullScore, sub \in SUBSET SubFields}

\* the analysis that holds the score, as lines 869-879 store it
ScoredAnalysis(score) ==
    AnalysisData("ats_score", PdfFile(<<"cv.pdf">>, <<>>, <<>>, <<>>), <<"job">>, score, 0)

ConsumersIdle ==
    /\ cs_score = PyDict(EmptyDict)
    /\ cs_view = "none"
    /\ cs_shown = <<>>

ConsumerInputs ==
    /\ cs_score \in PartialScores
    /\ cs_view = "none"
    /\ cs_shown = <<>>

RenderAnalyzeView ==
    /\ cs_view = "none"
    /\ cs_view' = "analyze"
    /\ cs_shown' = AnalyzeView(ScoredAnalysis(cs_score))
    /\ UNCHANGED cs_score
    /\ UNCHANGED <<interpVars, extractVars, promptVars, sessionVars, statsVars>>

RenderDashboard ==
    /\ cs_view = "none"
    /\ cs_view' = "dashboard"
    /\ cs_shown' = DashboardView(ScoredAnalysis(cs_score))
    /\ UNCHANGED cs_score
    /\ UNCHANGED <<interpVars, extractVars, promptVars, sessionVars, statsVars>>

RenderVisualize ==
    /\ cs_view = "none"
    /\ cs_view' = "visualize"
    /\ cs_shown' = VisualizeView(ScoredAnalysis(cs_score))
    /\ UNCHANGED cs_score
    /\ UNCHANGED <<interpVars, extractVars, promptVars, sessionVars, statsVars>>

RenderHistory ==
    /\ cs_view = "none"
    /\ cs_view' = "history"
    /\ cs_shown' = HistoryView(ScoredAnalysis(cs_score))
    /\ UNCHANGED cs_score
    /\ UNCHANGED <<interpVars, extractVars, promptVars, sessionVars, statsVars>>

\* ------------------------------------------------------ get_file_stats

\* what a PDF reader does with the buffer: it raises, or reads `pages` pages
ReaderRaises == [ok |-> FALSE, pages |-> 0]
ReaderReads(n) == [ok |-> TRUE, pages |-> n]

\* line 214: 1024 * 1024
BytesPerMb == 1024 * 1024

\* line 214: len(buffer) / (1024 * 1024), as whole megabytes and the bytes
\* over
SizeMb(size) == [whole |-> size \div BytesPerMb, bytes |-> size % BytesPerMb]

\* a variant of lines 218-228 that never opens the fallback reader
PagesFromPrimaryOnly(primary, fallback) ==
    IF primary.ok THEN primary.pages ELSE 0

\* lines 215-228: pages starts at 0, is set from pdfplumber, and on any
\* exception there from fitz, whose exception is passed over
PagesCounted(primary, fallback) ==
    IF primary.ok THEN primary.pages
    ELSE IF fallback.ok THEN fallback.pages
    ELSE 0

\* lines 210-230
GetFileStats(name, size, primary, fallback) ==
    [filename |-> name,
     size_mb  |-> SizeMb(size),
     pages    |-> PagesCounted(primary, fallback)]

\* the largest page count a reader reports
MaxPageCount == 2

ReaderOutcomes == {ReaderRaises} \cup {ReaderReads(n) : n \in 0..MaxPageCount}

\* buffer lengths: empty, one byte, a megabyte, a megabyte and a half, more
BufferSizes == {0, 1, BytesPerMb, BytesPerMb + BytesPerMb \div 2, 3 * BytesPerMb - 1}

StatsIdle ==
    /\ fs_size = 0
    /\ fs_primary = ReaderRaises
    /\ fs_fallback = ReaderRaises
    /\ fs_done = FALSE
    /\ fs_stats = [filename |-> <<>>, size_mb |-> SizeMb(0), pages |-> 0]

StatsInputs ==
    /\ fs_size \in BufferSizes
    /\ fs_primary \in ReaderOutcomes
    /\ fs_fallback \in ReaderOutcomes
    /\ fs_done = FALSE
    /\ fs_stats = [filename |-> <<>>, size_mb |-> SizeMb(0), pages |-> 0]

\* line 704: stats = get_file_stats(uploaded_file)
CallGetFileStats ==
    /\ ~fs_done
    /\ fs_done' = TRUE
    /\ fs_stats' = GetFileStats(<<"cv.pdf">>, fs_size, fs_primary, fs_fallback)
    /\ UNCHANGED <<fs_size, fs_primary, fs_fallback>>
    /\ UNCHANGED <<interpVars, extractVars, promptVars, sessionVars, consumerVars>>

\* ---------------------------------------------------- the specifications

vars == <<interpVars, extractVars, promptVars, sessionVars, consumerVars, statsVars>>

IdleElsewhere == ConsumersIdle /\ StatsIdle

InitPrompt == PromptInputs /\ InterpIdle /\ ExtractIdle /\ SessionIdle /\ IdleElsewhere
NextPrompt == BuildPrompt
SpecPrompt == InitPrompt /\ [][NextPrompt]_vars

InitExtract == ExtractIdle /\ InterpIdle /\ PromptIdle /\ SessionIdle /\ IdleElsewhere
NextExtract ==
    \/ StageTempFile
    \/ Method1
    \/ Method2
    \/ Method3
    \/ CleanUpAndReturn
    \/ UploadPreview
SpecExtract == InitExtract /\ [][NextExtract]_vars

InitInterp == InterpInputs /\ ExtractIdle /\ PromptIdle /\ SessionIdle /\ IdleElsewhere
NextInterp == Interpret
SpecInterp == InitInterp /\ [][NextInterp]_vars

\* the session under uploads, replacements, analyses and clears
InitUploads ==
    SessionIdle /\ InterpIdle /\ ExtractIdle /\ PromptIdle /\ IdleElsewhere
NextUploads ==
    \/ EnterApiKey
    \/ ReplaceFile
    \/ EditJobDesc
    \/ ClickAnalyze
    \/ ClickClearAll
SpecUploads == InitUploads /\ [][NextUploads]_vars

InitConsumers ==
    ConsumerInputs /\ InterpIdle /\ ExtractIdle /\ PromptIdle /\ SessionIdle /\ StatsIdle
NextConsumers ==
    \/ RenderAnalyzeView
    \/ RenderDashboard
    \/ RenderVisualize
    \/ RenderHistory
SpecConsumers == InitConsumers /\ [][NextConsumers]_vars

InitStats ==
    StatsInputs /\ InterpIdle /\ ExtractIdle /\ PromptIdle /\ SessionIdle /\ ConsumersIdle
NextStats == CallGetFileStats
SpecStats == InitStats /\ [][NextStats]_vars

Init == SessionIdle /\ InterpIdle /\ ExtractIdle /\ PromptIdle /\ IdleElsewhere
Next ==
    \/ EnterApiKey
    \/ UploadFile
    \/ EditJobDesc
    \/ ClickAnalyze
    \/ ClickRunNew
    \/ ClickLoad
    \/ ClickDelete
    \/ ClickClearAll
    \/ Tick
Spec == Init /\ [][Next]_vars

\* C1: in ATSScore mode, for a well-formed StructuredScore S embedded in
\* commentary placed before and after it, the returned payload equals S.
C1_PayloadEqualsEmbedded ==
    (interpDone /\ mode = "ats_score" /\ embedded.t = "dict")
        => payload = embedded


\* ------------------------------------------------------------------ claims

\* no "{" of s is followed by a "}"
NoBraceSubstring(s) ==
    ~\E i, j \in 1..Len(s) : i < j /\ s[i] = "{" /\ s[j] = "}"

\* the part of s from its first "{" to its last "}"
BraceSubstring(s) ==
    LET first == CHOOSE i \in 1..Len(s) : s[i] = "{" /\ \A k \in 1..(i - 1) : s[k] # "{"
        last  == CHOOSE j \in 1..Len(s) : s[j] = "}" /\ \A k \in (j + 1)..Len(s) : s[k] # "}"
    IN  SubSeq(s, first, last)

MalformedOrAbsent(s) ==
    NoBraceSubstring(s) \/ ~JsonLoads(BraceSubstring(s)).ok

\* C2: in ATSScore mode, a raw text that holds no brace-delimited substring, or
\* whose brace-delimited substring is not valid JSON, is returned unchanged as
\* the payload (a value is returned: nothing is raised).
C2_MalformedReturnsRawText ==
    (interpDone /\ mode = "ats_score" /\ MalformedOrAbsent(rawText))
        => payload = PyStr(rawText)

C2_Witness ==
    /\ interpDone
    /\ mode = "ats_score"
    /\ ~NoBraceSubstring(rawText)
    /\ ~JsonLoads(BraceSubstring(rawText)).ok
    /\ embedded.t = "none"
    /\ warned
    /\ payload = PyStr(rawText)

Returned == ex_pc \in {"done", "shown"}

NonWhitespaceCount(s) == Cardinality({i \in 1..Len(s) : s[i] \notin Whitespace})

ShortAt(k) == IF Len(seen) >= k THEN seen[k] < 100 ELSE TRUE

\* the methods that are due: 1, then 2 and 3 each when the text was short
StagesDue ==
    <<1>> \o (IF ShortAt(1) THEN <<2>> ELSE <<>>)
          \o (IF ShortAt(2) THEN <<3>> ELSE <<>>)

IsWarningOrError(r) ==
    r = PyStr(WarningMsg) \/ r = PyStr(ErrorMsg(OsErrorText))

\* C4 as stated: whichever of the methods and of the temp-file steps fails, a
\* string is returned, the methods that are due have all run, and the string is
\* a warning when the text is not enough (50 stripped characters or fewer).
C4_AsStated ==
    Returned
        => /\ ret.t = "str"
           /\ stagesRun = StagesDue
           /\ (Len(Strip(text)) <= 50 => IsWarningOrError(ret))

\* C4 amended: a string is always returned; a method that raises is caught and
\* the later methods that are due still run; a temp-file step that raises
\* (creating or writing the file, deleting it) is caught by the outer handler,
\* which runs no further method and returns the error string; the string is a
\* warning or the error string when the text is not enough.
C4_NeverRaises ==
    Returned
        => /\ ret.t = "str"
           /\ IF raisedAt \in {"create", "write"}
              THEN stagesRun = <<>>
              ELSE stagesRun = StagesDue /\ Len(seen) = 2
           /\ (raisedAt # "none" => ret = PyStr(ErrorMsg(OsErrorText)))
           /\ (Len(Strip(text)) <= 50 => IsWarningOrError(ret))

C4_Witness ==
    /\ Returned
    /\ stagesRaised = {1, 2, 3}
    /\ stagesRun = <<1, 2, 3>>
    /\ raisedAt = "none"
    /\ ret = PyStr(WarningMsg)

\* C5: a call that created the temporary file has deleted it when it returns.
C5_TempFileDeleted ==
    (Returned /\ tmpCreated) => ~tmpExists

FirstChars(s, n) == [i \in 1..(IF Len(s) < n THEN Len(s) ELSE n) |-> s[i]]

\* the user prompt of type t with the texts jd and res put in
UserPromptWith(t, jd, res) == <<t, "user.1">> \o jd \o <<"user.2">> \o res \o <<"user.3">>

\* C7: the prompt of a mode interpolates the first 2000 and 2000 characters of
\* job description and resume text (Detailed), the first 1000 and 1000
\* (ATSScore), the whole job description and the first 1500 characters of the
\* resume text (CoverLetter); shorter inputs are interpolated whole.
C7_PromptPrefixes ==
    pb_done =>
        pb_prompt.user =
            CASE pb_mode = "detailed" ->
                   UserPromptWith("detailed", FirstChars(pb_job_desc, 2000),
                                  FirstChars(pb_resume_text, 2000))
              [] pb_mode = "ats_score" ->
                   UserPromptWith("ats_score", FirstChars(pb_job_desc, 1000),
                                  FirstChars(pb_resume_text, 1000))
              [] pb_mode = "cover_letter" ->
                   UserPromptWith("cover_letter", pb_job_desc,
                                  FirstChars(pb_resume_text, 1500))

C7_Witness ==
    /\ pb_done
    /\ pb_mode = "cover_letter"
    /\ Len(pb_job_desc) = 3000
    /\ Len(pb_resume_text) = 1501
    /\ Len(pb_prompt.user) = 4 + 3000 + 1500

\* ----------------------------------------------------- claims C8 to C10

\* the analyze tab was entered with a precondition missing
PreconditionMissing ==
    w_api_key = <<>> \/ ~uploaded_file.present \/ w_job_desc = <<>>

\* the notice that names the precondition missing first
SpecificNotice ==
    CASE w_api_key = <<>>        -> MsgNeedApiKey
      [] ~uploaded_file.present  -> MsgNeedResume
      [] OTHER                   -> MsgNeedJobDesc

\* C8: when the analyze flow is entered with the API key, the uploaded file or
\* the job description missing, no request is issued, the notice of the missing
\* precondition is shown, and only the analyze action halts: the dashboard,
\* the visualizations and the history (with its load and delete buttons) are
\* still drawn in that run.
C8_OnlyAnalyzeHalts ==
    PreconditionMissing =>
        /\ requests = <<>>
        /\ SpecificNotice \in messages
        /\ {"dashboard", "visualize", "history"} \subseteq rendered

\* the step is a user action whose completion call returned without error
CompletionReturned == now' = now /\ completion' = "returned"

\* the step stored one analysis: one entry more, at the end, and it is the
\* current analysis
StoredOne ==
    /\ current_analysis' # PyNone
    /\ analysis_history' = Append(analysis_history, current_analysis')

\* C9: every analysis request whose completion call returns without error
\* stores exactly one analysis (current analysis set, one entry appended),
\* whatever text the model returned.
C9_EveryCompletionStored == [][CompletionReturned => StoredOne]_vars

\* the step is a user action that reached lines 881-885
StoredAnalysis == now' = now /\ MsgComplete \in messages'

\* C10: each stored analysis appends exactly one entry at the end of the
\* history, leaves the earlier entries unchanged and in position, and sets
\* the current analysis to a record equal to the appended entry; the history
\* grows in no other way.
C10_AppendOnly ==
    [][/\ StoredAnalysis => StoredOne
       /\ Len(analysis_history') > Len(analysis_history) => StoredOne]_vars

\* C10 witness: a second analysis was stored behind a different first one
C10_Witness ==
    /\ MsgComplete \in messages
    /\ Len(analysis_history) = 2
    /\ current_analysis = analysis_history[2]
    /\ analysis_history[1] # analysis_history[2]

\* ------------------------------------------------------------ claim C11

\* the step is the Clear All action (lines 605-607 and the run they start)
ClearAllPressed == now' = now /\ pressed' = Click("clear_all", 0)

\* C11: after the Clear All action the session store is back in its initial
\* state: the history is the empty sequence, the current analysis is none,
\* the API key and the cached resume text are empty.
C11_ClearAllResetsStore ==
    [][ClearAllPressed =>
          /\ analysis_history' = <<>>
          /\ current_analysis' = PyNone
          /\ api_key' = <<>>
          /\ resume_text' = <<>>]_vars

\* ------------------------------------------------------------ claim C12

\* the step is an analyze action whose client could not be made (line 854),
\* or whose completion call raised (line 407)
ClientFailed ==
    now' = now /\ pressed'.kind \in AnalysisTypes /\ completion' = "none"
CompletionFailed ==
    now' = now /\ pressed'.kind \in AnalysisTypes /\ completion' = "raised"

\* the store is what it was before the step
StoreKept ==
    /\ analysis_history' = analysis_history
    /\ current_analysis' = current_analysis
    /\ resume_text' = resume_text

\* C12: when client construction or the completion call fails during an
\* analyze action, an error message is shown, the history, the current
\* analysis and the cached resume text are what they were before the action,
\* and the analysis buttons are drawn again, so a later analyze action can
\* still succeed.
C12_FailureKeepsStore ==
    [][/\ ClientFailed => MsgNoClient \in messages' /\ StoreKept
       /\ CompletionFailed => MsgAiError \in messages' /\ StoreKept
       /\ ClientFailed \/ CompletionFailed =>
             "analyze" \in rendered' /\ MsgComplete \notin messages']_vars

\* C12 witness: the completion call of an analyze action failed in a session
\* that held a stored analysis, and the analysis buttons are there
C12_Witness ==
    /\ pressed.kind \in AnalysisTypes
    /\ completion = "raised"
    /\ MsgAiError \in messages
    /\ analysis_history # <<>>
    /\ current_analysis # PyNone
    /\ "analyze" \in rendered

\* ------------------------------------------------------------ claim C13

\* the analyses the session holds
HeldAnalyses ==
    {analysis_history[i] : i \in 1..Len(analysis_history)}
    \cup (IF current_analysis = PyNone THEN {} ELSE {current_analysis})

\* the held analyses whose result is a parsed score object
HeldScores ==
    {a.result : a \in {h \in HeldAnalyses : h.type = "ats_score" /\ h.result.t = "dict"}}

IsPercent(x) == x.t = "int" /\ x.v \in 0..100

BreakdownOf(score) == DictGet(score.v, <<"breakdown">>, PyDict(EmptyDict))

ScoreFieldsInRange(score) ==
    /\ <<"overall_score">> \in DOMAIN score.v => IsPercent(score.v[<<"overall_score">>])
    /\ BreakdownOf(score).t = "dict" =>
          \A k \in DOMAIN BreakdownOf(score).v : IsPercent(BreakdownOf(score).v[k])

\* C13: in every reachable session state, every score object held as the
\* current analysis or in a history entry has its overall score and each of
\* its breakdown sub-scores within 0..100, whatever text the model returned.
C13_HeldScoresInRange == \A score \in HeldScores : ScoreFieldsInRange(score)

\* ------------------------------------------------------------ claim C14

\* the history entries that are ATS-score entries: the ones holding a score
AtsEntries == SelectSeq(analysis_history, LAMBDA a : "score" \in DOMAIN a)

\* the sum of their overall scores divided by their number, to one decimal
\* (in tenths)
AverageOfAtsEntries ==
    OneDecimal(SumOf([i \in 1..Len(AtsEntries) |-> AtsEntries[i]["score"].v]),
               Len(AtsEntries))

\* C14: the average score shown for a history equals the sum of the overall
\* scores of its ATS-score entries divided by the number of those entries,
\* in the sidebar's Quick Stats and in the Visualize tab alike, also for a
\* history that holds Detailed or CoverLetter entries.
C14_AverageOverAtsEntries ==
    AtsEntries # <<>> =>
        /\ "sidebar" \in rendered => SidebarAvgScore(analysis_history) = AverageOfAtsEntries
        /\ "visualize" \in rendered => VisualizeAvgScore(analysis_history) = AverageOfAtsEntries

\* ------------------------------------------------------------ claim C15

\* the step is a Delete on a history entry (lines 1203-1209)
DeletePressed == now' = now /\ pressed'.kind = "delete"

\* the position in the history of the entry whose Delete button was pressed:
\* the expanders list the history newest first (line 1178)
SelectedPos == Len(analysis_history) - pressed'.idx

\* the step removed the entry at position i and nothing else
RemovedAt(i) ==
    /\ Len(analysis_history') = Len(analysis_history) - 1
    /\ \A k \in 1..(i - 1) : analysis_history'[k] = analysis_history[k]
    /\ \A k \in i..Len(analysis_history') : analysis_history'[k] = analysis_history[k + 1]

\* position i holds the earliest entry with the selected entry's timestamp
EarliestWithSelectedTimestamp(i) ==
    /\ analysis_history[i].timestamp = analysis_history[SelectedPos].timestamp
    /\ \A j \in 1..(i - 1) :
          analysis_history[j].timestamp # analysis_history[SelectedPos].timestamp

TimestampsDistinct ==
    \A i, j \in 1..Len(analysis_history) :
        i # j => analysis_history[i].timestamp # analysis_history[j].timestamp

\* C15: Delete on a selected history entry removes exactly one entry, the
\* earliest entry whose timestamp equals the selected entry's timestamp, and
\* leaves all other entries present in their relative order; when all
\* timestamps in the history are distinct the removed entry is the selected
\* one.
C15_DeleteRemovesEarliestMatch ==
    [][DeletePressed =>
          /\ \E i \in 1..Len(analysis_history) :
                EarliestWithSelectedTimestamp(i) /\ RemovedAt(i)
          /\ TimestampsDistinct => RemovedAt(SelectedPos)]_vars

\* C15 witness: Delete was pressed on the newest of two entries stored within
\* the same second, and one entry is left
C15_Witness ==
    /\ pressed = Click("delete", 0)
    /\ Timestamp(now) = 0
    /\ Len(analysis_history) = 1

\* ------------------------------------------------------------ claim C16

\* C16: every ATSScore parse failure surfaces a warning: both when the
\* brace-delimited substring is malformed JSON and when the raw text holds no
\* brace-delimited substring at all.
C16_ParseFailureWarns ==
    (interpDone /\ mode = "ats_score" /\ MalformedOrAbsent(rawText)) => warned

\* ------------------------------------------------------------ claim C17

\* some item of the rendered view raised
ViewRaised == \E item \in DOMAIN cs_shown : cs_shown[item] = Raised

\* the score object lacks the field, or the field lacks the sub-field
Lacks(field) == <<field>> \notin DOMAIN cs_score.v
LacksSub(field, sub) == Lacks(field) \/ <<sub>> \notin DOMAIN cs_score.v[<<field>>].v

\* the view shows the items of a parsed score
ShowsScore == cs_view \in {"analyze", "dashboard"}

\* C17: a consumer of a parsed score never fails on an absent field: for an
\* object missing any subset of overall_score, breakdown or its sub-scores,
\* prediction or its fields, keywords or its matched/missing lists,
\* improvements and ats_optimization_tips, the Analyze view, the Dashboard,
\* the Visualize tab and the History tab render without raising, with the
\* default (0, an empty sequence, "N/A") in the absent field's place.
C17_ConsumersUseDefaults ==
    cs_view # "none" =>
        /\ ~ViewRaised
        /\ ShowsScore /\ Lacks("overall_score") => cs_shown.gauge = PyInt(0)
        /\ ShowsScore /\ LacksSub("prediction", "pass_ats") =>
              cs_shown.status = PyStr(<<"FAIL">>)
        /\ ShowsScore /\ LacksSub("prediction", "shortlist_time") =>
              cs_shown.shortlist = PyStr(<<"N/A">>)
        /\ cs_view = "dashboard" /\ LacksSub("prediction", "interview_probability") =>
              cs_shown.probability = PyStr(<<"N/A">>)
        /\ cs_view = "analyze" /\ LacksSub("prediction", "interview_probability") =>
              cs_shown.probability = PyStr(<<>>)
        /\ ShowsScore /\ LacksSub("keywords", "matched") => cs_shown.matched = PyList(<<>>)
        /\ ShowsScore /\ LacksSub("keywords", "missing") => cs_shown.missing = PyList(<<>>)
        /\ ShowsScore /\ Lacks("improvements") => cs_shown.improvements = PyList(<<>>)
        /\ cs_view = "analyze" /\ Lacks("breakdown") => cs_shown.progress = PyDict(EmptyDict)
        /\ cs_view = "analyze" /\ Lacks("ats_optimization_tips") => cs_shown.tips = PyList(<<>>)
        /\ cs_view = "dashboard" /\ Lacks("breakdown") => cs_shown.radar = PyDict(EmptyDict)
        /\ cs_view = "visualize" /\ Lacks("overall_score") => cs_shown.average = PyInt(0)
        /\ cs_view = "history" /\ Lacks("overall_score") => cs_shown.score = PyInt(0)

\* C17 witness: the Dashboard rendered a score object that has keywords
\* without a matched list and a breakdown with one sub-score, and neither an
\* overall score nor a prediction
C17_Witness ==
    /\ cs_view = "dashboard"
    /\ ~Lacks("keywords") /\ LacksSub("keywords", "matched")
    /\ ~Lacks("breakdown") /\ LacksSub("breakdown", "education_match")
    /\ ~LacksSub("breakdown", "keyword_match")
    /\ Lacks("overall_score") /\ Lacks("prediction")
    /\ cs_shown.matched = PyList(<<>>)
    /\ cs_shown.overall = PyInt(0)

\* ------------------------------------------------------------ claim C18

\* C18: get_file_stats returns for every buffer: size_mb is the buffer
\* length divided by 1024*1024, the page count comes from the primary reader
\* when it succeeds, from the fallback reader when only the primary fails,
\* and is 0 when both fail.
C18_FileStats ==
    fs_done =>
        /\ fs_stats.size_mb.whole * (1024 * 1024) + fs_stats.size_mb.bytes = fs_size
        /\ fs_stats.size_mb.bytes \in 0..(1024 * 1024 - 1)
        /\ fs_primary.ok => fs_stats.pages = fs_primary.pages
        /\ ~fs_primary.ok /\ fs_fallback.ok => fs_stats.pages = fs_fallback.pages
        /\ ~fs_primary.ok /\ ~fs_fallback.ok => fs_stats.pages = 0

\* C18 witness: the primary reader raised on a buffer of a megabyte and a
\* half, and the fallback reader's page count was returned
C18_Witness ==
    /\ fs_done
    /\ ~fs_primary.ok /\ fs_fallback.ok
    /\ fs_fallback.pages > 0
    /\ fs_stats.pages = fs_fallback.pages
    /\ fs_stats.size_mb.whole = 1 /\ fs_stats.size_mb.bytes > 0

\* ------------------------------------------------------------ claim C19

\* the step attempts stage k of the cascade
Attempts(k) == stagesRun' = Append(stagesRun, k)

\* the stages attempted so far are in the order 1, 2, 3, stage 1 first
StagesInOrder == stagesRun \in {<<>>, <<1>>, <<1, 2>>, <<1, 3>>, <<1, 2, 3>>}

\* C19: the cascade runs its stages in the fixed order 1, 2, 3 and
\* short-circuits: stage 2 is attempted only if the text accumulated after
\* stage 1 has fewer than 100 non-whitespace characters, stage 3 only if the
\* text accumulated after stages 1 and 2 has fewer than 100; once the
\* threshold is reached no later stage runs.
C19_CascadeShortCircuits ==
    [][/\ StagesInOrder'
       /\ stagesRun' # stagesRun => \E k \in 1..3 : Attempts(k)
       /\ Attempts(2) \/ Attempts(3) => NonWhitespaceCount(text) < 100
       /\ stagesRun # <<>> /\ NonWhitespaceCount(text) >= 100 =>
             stagesRun' = stagesRun]_vars

\* C19 witness: stage 2 was attempted after a short stage 1, brought the
\* text to the threshold, and the call returned without stage 3
C19_Witness ==
    /\ Returned
    /\ stagesRun = <<1, 2>>
    /\ seen[1] < 100
    /\ NonWhitespaceCount(text) >= 100

\* ------------------------------------------------------------ claim C20

\* C20: each analyze action issues at most one completion request; a failed
\* request is reported in the same action and is not issued again by it (nor
\* by the run that follows a stored analysis); only an analyze action issues
\* a request.
C20_OneRequestPerAction ==
    /\ Len(requests) <= 1
    /\ requests # <<>> => pressed.kind \in AnalysisTypes
    /\ completion # "none" => Len(requests) = 1
    /\ completion = "raised" => MsgAiError \in messages /\ MsgComplete \notin messages

\* C20 witness: the request of an ATS Score action failed, and it is the one
\* request of the action
C20_Witness ==
    /\ pressed.kind = "ats_score"
    /\ completion = "raised"
    /\ requests = <<CompletionRequest("ats_score", w_job_desc, resume_text)>>
    /\ MsgAiError \in messages

\* ------------------------------------------------------------ claim C21

\* the current analysis is an entry of the history
CurrentInHistory ==
    \E i \in 1..Len(analysis_history) : analysis_history[i] = current_analysis

\* C21: deleting a history entry leaves the current analysis as it was, also
\* when the current analysis is the deleted entry.
C21_DeleteKeepsCurrent ==
    [][DeletePressed => current_analysis' = current_analysis]_vars

\* C21 witness: after a Delete the current analysis is there and is no entry
\* of the history any more
C21_Witness ==
    /\ pressed.kind = "delete"
    /\ current_analysis # PyNone
    /\ ~CurrentInHistory

\* ------------------------------------------------------------ claim C22

\* the step is a Load on a history entry (lines 1199-1201), or a Run New
\* Analysis (lines 1015-1017)
LoadPressed == now' = now /\ pressed'.kind = "load"
RunNewPressed == now' = now /\ pressed'.kind = "run_new"

\* C22: Load This Analysis on a history entry sets the current analysis to
\* that entry and leaves the history (its entries, their order and their
\* number) unchanged; Run New Analysis sets the current analysis to none and
\* likewise leaves the history unchanged.
C22_LoadAndRunNewKeepHistory ==
    [][/\ LoadPressed =>
             /\ current_analysis' = analysis_history[SelectedPos]
             /\ analysis_history' = analysis_history
       /\ RunNewPressed =>
             /\ current_analysis' = PyNone
             /\ analysis_history' = analysis_history]_vars

\* C22 witness: the older of two different entries was loaded and is the
\* current analysis, both entries being in place
C22_Witness ==
    /\ pressed = Click("load", 1)
    /\ Len(analysis_history) = 2
    /\ analysis_history[1] # analysis_history[2]
    /\ current_analysis = analysis_history[1]

\* ------------------------------------------------------------ claim C23

\* C23: whenever an analysis request is issued, the resume text sent to the
\* model is the extraction result of the file uploaded at that moment; the
\* cached resume text is that of the uploaded file in every run in which a
\* file is present, after any sequence of uploads, file replacements,
\* analyses and clears.
C23_RequestUsesUploadedFile ==
    /\ uploaded_file.present => resume_text = ExtractionOf[uploaded_file]
    /\ requests # <<>> =>
          /\ uploaded_file.present
          /\ \A i \in 1..Len(requests) :
                requests[i] = CompletionRequest(pressed.kind, w_job_desc,
                                                ExtractionOf[uploaded_file])

\* C23 witness: an analysis of cv.pdf is in the history, the file was
\* replaced by other.pdf, and the request of a second analysis was issued
C23_Witness ==
    /\ requests # <<>>
    /\ uploaded_file.name = <<"other.pdf">>
    /\ Len(analysis_history) = 2
    /\ analysis_history[1].filename = <<"cv.pdf">>
    /\ analysis_history[2].filename = <<"other.pdf">>
    /\ CompletionRequest(pressed.kind, w_job_desc, ExtractionOf[uploaded_file])
          # CompletionRequest(pressed.kind, w_job_desc, ResumeText)

====
